---- MODULE Spec2Model ----
(***************************************************************************)
(* Password Manager PWA: the session / vault manager (App), the IndexedDB  *)
(* store (Storage), the cipher helpers (CryptoUtils) and the GitHub sync   *)
(* adapter (GitHubSync), as one state machine.                             *)
(*                                                                         *)
(* Cryptography is idealised: PBKDF2 is an injective function of           *)
(* (password, salt); a ciphertext remembers the plaintext string, the key  *)
(* and the iv it was made with. Under another key it decrypts to bytes     *)
(* that are no JSON text, but for one pair of ciphertext and key that      *)
(* stands for the few where what CBC and Pkcs7 leave is a JSON number.     *)
(***************************************************************************)
EXTENDS Integers, Sequences, FiniteSets, TLC

(* ------------------------------ bounds ---------------------------------- *)
\* number of first-time setups the random number generator serves
MaxSetups == 2
\* number of distinct values a random 16-byte iv draw can take
NumIVs == 1
\* cap on the auto-increment key generator of the 'passwords' object store
MaxId == 2

(* ------------------------- program constants ---------------------------- *)
\* minimum master password length
MIN_MASTER_LENGTH == 8
\* the single supported snapshot version
SNAPSHOT_VERSION == 1

(* ------------------------------ values ---------------------------------- *)
Undefined == [t |-> "undefined"]
Null == [t |-> "null"]
Falsy(v) == v = Undefined \/ v = Null

\* the n-th 16 random bytes this device draws for a salt, in base64: no two
\* draws give the same bytes. The draws of other devices are numbered below 0.
Salt(n) == [t |-> "b64", n |-> n]
\* btoa('') : what deriveKey makes of a salt that is not a string
EmptySalt == Salt(0)
IVs == 1..NumIVs

\* what the user can type into the master password / confirm fields
GoodPassphrases == {"correcthorse123", "tr0ub4dor&3x"}
Passphrases == GoodPassphrases \cup {"short"}

\* what the user can type into the edit form
FormData ==
  { [service |-> "Example", email |-> "", username |-> "alice",
     password |-> "p@ss", memo |-> ""],
    [service |-> "Mail", email |-> "bob@example.org", username |-> "bob",
     password |-> "hunter2", memo |-> "work"] }

DataA == CHOOSE d \in FormData : d.service = "Example"
DataB == CHOOSE d \in FormData : d.service = "Mail"

\* the salts of another device's vault
OtherMasterSalt == Salt(-1)
OtherEncryptionSalt == Salt(-2)

(* ---------------------------- CryptoUtils ------------------------------- *)
\* CryptoJS.PBKDF2(password, salt, {keySize: 8, iterations, hasher})
PBKDF2(password, salt) == [t |-> "wordarray", pw |-> password, salt |-> salt]

wordArrayToBase64(wordArray) == [t |-> "b64", w |-> wordArray]

\* the random salt is the draw saltBytes
hashMasterPassword(password, saltBytes) ==
  [hash |-> wordArrayToBase64(PBKDF2(password, saltBytes)), salt |-> saltBytes]

\* Base64.parse(undefined) throws a TypeError
verifyThrows(storedSalt) == Falsy(storedSalt)

\* verifyMasterPassword that compares only the part of the hash that the
\* salt decides
verifyMasterPasswordPart(password, storedHash, storedSalt) ==
  wordArrayToBase64(PBKDF2(password, storedSalt)).w.salt = storedHash.w.salt

verifyMasterPassword(password, storedHash, storedSalt) ==
  wordArrayToBase64(PBKDF2(password, storedSalt)) = storedHash

deriveKey(password, salt) ==
  PBKDF2(password, IF Falsy(salt) THEN EmptySalt ELSE salt)

\* JSON.stringify / JSON.parse of a plain data object
JSONstringify(data) == [t |-> "json", v |-> data]
IsJSON(str) == str.t = "json"
JSONparse(str) == str.v

\* AES-CBC: the ciphertext of dataString under key and iv
AESencrypt(dataString, key, iv) == [t |-> "aes", pt |-> dataString, k |-> key, iv |-> iv]

\* encrypt that hands AES the JSON text of the JSON text of the data
encryptStringifiesTwice(data, key, iv) ==
  [ciphertext |-> AESencrypt(JSONstringify(JSONstringify(data)), key, iv), iv |-> iv]

\* the random iv is the draw iv
encrypt(data, key, iv) ==
  [ciphertext |-> AESencrypt(JSONstringify(data), key, iv), iv |-> iv]

\* AES-CBC with Pkcs7 padding carries no integrity check: under a key other
\* than the one of the encryption the blocks come out as other bytes, and
\* unpadding cuts off as many of them as the last byte says. What is left is
\* hardly ever text, but for some pairs of ciphertext and key it is: here the
\* ciphertext ChanceCipher leaves the one character 7 under the key ChanceKey.
ChanceCipher ==
  AESencrypt(JSONstringify(DataA), PBKDF2("tr0ub4dor&3x", OtherEncryptionSalt), 1)
ChanceKey == PBKDF2("correcthorse123", Salt(-3))

\* CryptoJS.AES.decrypt(...).toString(Utf8): the text that comes out, the
\* JSON text of the number 7 in the case of chance, or bytes that are no text
AESdecrypt(ciphertext, key, iv) ==
  IF ciphertext.k = key /\ ciphertext.iv = iv THEN ciphertext.pt
  ELSE IF ciphertext = ChanceCipher /\ key = ChanceKey /\ iv = ciphertext.iv
    THEN [t |-> "json", v |-> [t |-> "number", n |-> 7]]
  ELSE [t |-> "bytes"]

\* decrypt throws when the bytes that come out are not UTF-8 JSON text
decryptThrows(ciphertext, iv, key) == ~IsJSON(AESdecrypt(ciphertext, key, iv))

decrypt(ciphertext, iv, key) == JSONparse(AESdecrypt(ciphertext, key, iv))

(* ------------------------------ Storage --------------------------------- *)
SettingKeys == {"masterHash", "masterSalt", "encryptionSalt",
                "githubToken", "githubRepoOwner", "githubRepoName"}

\* a field of a parsed JSON object: undefined when the object has no such field
Field(obj, name) == IF name \in DOMAIN obj THEN obj[name] ELSE Undefined

\* the database right after onupgradeneeded: both object stores empty,
\* the 'passwords' key generator at 1
EmptyDB ==
  [settings |-> [k \in SettingKeys |-> Undefined],
   passwords |-> <<>>,
   keyGen |-> 1]

saveSetting(d, key, value) == [d EXCEPT !.settings[key] = value]

getSetting(d, key) == d.settings[key]

\* store.add: a ConstraintError when the value carries an id that is taken
addPasswordThrows(d, encryptedData) ==
  "id" \in DOMAIN encryptedData /\ encryptedData.id \in DOMAIN d.passwords

\* the id store.add assigns: the value's own id, or the next generated one
addPasswordId(d, encryptedData) ==
  IF "id" \in DOMAIN encryptedData THEN encryptedData.id ELSE d.keyGen

addPassword(d, encryptedData) ==
  LET id == addPasswordId(d, encryptedData)
  IN [d EXCEPT
        !.passwords = (id :> [ciphertext |-> encryptedData.ciphertext,
                              iv |-> encryptedData.iv]) @@ d.passwords,
        !.keyGen = IF id >= d.keyGen THEN id + 1 ELSE d.keyGen]

\* store.put({...encryptedData, id})
updatePassword(d, id, encryptedData) ==
  [d EXCEPT
     !.passwords = (id :> [ciphertext |-> encryptedData.ciphertext,
                           iv |-> encryptedData.iv]) @@ d.passwords,
     !.keyGen = IF id >= d.keyGen THEN id + 1 ELSE d.keyGen]

deletePassword(d, id) ==
  [d EXCEPT !.passwords = [i \in (DOMAIN d.passwords) \ {id} |-> d.passwords[i]]]

\* the stored ids in ascending order, as store.getAll() walks them
StoredIds(d) ==
  SelectSeq([i \in 1..(d.keyGen - 1) |-> i], LAMBDA i : i \in DOMAIN d.passwords)

getAllPasswords(d) ==
  LET ids == StoredIds(d)
  IN [k \in 1..Len(ids) |->
        [id |-> ids[k],
         ciphertext |-> d.passwords[ids[k]].ciphertext,
         iv |-> d.passwords[ids[k]].iv]]

\* exportData that writes every setting into the snapshot
exportDataAllSettings(d) ==
  LET present == {k \in SettingKeys : d.settings[k] # Undefined}
      base == [version |-> SNAPSHOT_VERSION, passwords |-> getAllPasswords(d)]
  IN [k \in present |-> d.settings[k]] @@ base

\* JSON.stringify leaves out the fields whose value is undefined
exportData(d) ==
  LET present == {k \in {"masterHash", "masterSalt", "encryptionSalt"} :
                    d.settings[k] # Undefined}
      base == [version |-> SNAPSHOT_VERSION, passwords |-> getAllPasswords(d)]
  IN [k \in present |-> d.settings[k]] @@ base

\* both object stores are cleared; the key generator is not reset
clearAll(d) == [EmptyDB EXCEPT !.keyGen = d.keyGen]

(* ------------------------------- state ---------------------------------- *)
VARIABLES
  db,                 \* Storage.db: the IndexedDB database
  encryptionKey,      \* App.encryptionKey
  passwords,          \* App.passwords: the decrypted records, [id, data]
  currentPasswordId,  \* App.currentPasswordId, 0 for null
  isNewUser,          \* App.isNewUser
  editMode,           \* App.editMode
  screen,             \* the element of class 'screen' that is active
  toasts,             \* what the handler that ran last passed to showToast
  rng,                \* how many salts crypto.getRandomValues has handed out
  sync,               \* GitHubSync.token, REPO_OWNER, REPO_NAME
  remote,             \* the file pwa/data/passwords.json in the repository
  pull,               \* the handleSyncPull call in flight
  pullTimer,          \* the setTimeout of handleSyncPull is pending
  push,               \* the handleSyncPush call in flight
  logins,             \* the handleLogin calls in flight, in the order of their requests
  idb,                \* the calls whose IndexedDB request is pending, oldest request first
  committed,          \* the snapshots of the store as it was between operations
  call,               \* the last direct call of a CryptoUtils function and its result
  gen,                \* the PasswordGenerator.generate call under way
  sw                  \* the service worker and the CacheStorage of the origin

vars == <<db, encryptionKey, passwords, currentPasswordId,
          isNewUser, editMode, screen, toasts, rng, sync, remote, pull, pullTimer,
          push, logins, idb, committed, call, gen, sw>>

\* the calls in flight besides the pull, the direct call, the generator
\* and the service worker
flightVars == <<push, logins, idb, committed, call, gen, sw>>

appVars == <<encryptionKey, passwords, currentPasswordId,
             isNewUser, editMode, rng>>

Toast(msg, n) == [msg |-> msg, n |-> n]

NotFound == [t |-> "404"]
NoConfig == [token |-> Null, REPO_OWNER |-> Null, REPO_NAME |-> Null]
PullIdle == [pc |-> "idle"]
PushIdle == [pc |-> "idle"]
NoCall == [op |-> "none"]
GenIdle == [pc |-> "idle"]
NoFetch == [t |-> "none"]
\* sw.js is parsed and nothing of it has run; the origin has no cache
NoWorker ==
  [phase |-> "parsed", caches |-> <<>>, names |-> <<>>, deletes |-> {},
   puts |-> {}, last |-> NoFetch]

\* App.init on the stored database d: the in-memory state of a fresh page
init(d) ==
  /\ db = d
  /\ encryptionKey = Null
  /\ passwords = <<>>
  /\ currentPasswordId = 0
  /\ isNewUser = Falsy(getSetting(d, "masterHash"))
  /\ editMode = FALSE
  /\ screen = "login-screen"
  /\ toasts = <<>>
  /\ sync = NoConfig
  /\ pull = PullIdle
  /\ pullTimer = FALSE
  /\ push = PushIdle
  /\ logins = <<>>
  /\ idb = <<>>

\* first start of the app on a device: no database yet, no remote file yet
Init ==
  /\ init(EmptyDB)
  /\ rng = 0
  /\ remote = NotFound
  /\ committed = {exportData(EmptyDB)}
  /\ call = NoCall
  /\ gen = GenIdle
  /\ sw = NoWorker

(* ----------------------------- App: session ----------------------------- *)
\* loadPasswords with the clean-up loop left out: what fails to decrypt stays
\* in the store
loadPasswordsKeepsCorrupt(d, key) ==
  LET encryptedPasswords == getAllPasswords(d)
      fails(ep) == decryptThrows(ep.ciphertext, ep.iv, key)
      good == SelectSeq(encryptedPasswords, LAMBDA ep : ~fails(ep))
      invalid == SelectSeq(encryptedPasswords, fails)
  IN [db |-> d,
      passwords |-> [k \in 1..Len(good) |->
                       [id |-> good[k].id,
                        data |-> decrypt(good[k].ciphertext, good[k].iv, key)]],
      toasts |-> IF Len(invalid) > 0
                   THEN <<Toast("corruptDeleted", Len(invalid))>>
                   ELSE <<>>]

\* loadPasswords as a function of the database and the key: the database it
\* leaves, the array it builds and the toast it shows
loadPasswords(d, key) ==
  LET encryptedPasswords == getAllPasswords(d)
      fails(ep) == decryptThrows(ep.ciphertext, ep.iv, key)
      good == SelectSeq(encryptedPasswords, LAMBDA ep : ~fails(ep))
      invalid == SelectSeq(encryptedPasswords, fails)
      invalidIds == {invalid[k].id : k \in 1..Len(invalid)}
  IN [db |-> [d EXCEPT !.passwords =
                 [i \in (DOMAIN d.passwords) \ invalidIds |-> d.passwords[i]]],
      passwords |-> [k \in 1..Len(good) |->
                       [id |-> good[k].id,
                        data |-> decrypt(good[k].ciphertext, good[k].iv, key)]],
      toasts |-> IF Len(invalid) > 0
                   THEN <<Toast("corruptDeleted", Len(invalid))>>
                   ELSE <<>>]

\* a first-time branch that accepts a master password of any length
handleLoginSetupNoLength(password, confirmPassword) ==
  IF password # confirmPassword
    THEN /\ toasts' = <<Toast("passwordMismatch", 0)>>
         /\ UNCHANGED <<db, encryptionKey, screen, rng>>
  ELSE LET hs == hashMasterPassword(password, Salt(rng + 1))
           encSaltBytes == Salt(rng + 2)
           d1 == saveSetting(db, "masterHash", hs.hash)
           d2 == saveSetting(d1, "masterSalt", hs.salt)
           d3 == saveSetting(d2, "encryptionSalt", encSaltBytes)
       IN /\ rng < 2 * MaxSetups
          /\ rng' = rng + 2
          /\ db' = d3
          /\ encryptionKey' = deriveKey(password, encSaltBytes)
          /\ toasts' = <<Toast("masterPasswordSet", 0)>>
          /\ screen' = "list-screen"

\* the first-time branch of handleLogin
handleLoginSetup(password, confirmPassword) ==
  IF password # confirmPassword
    THEN /\ toasts' = <<Toast("passwordMismatch", 0)>>
         /\ UNCHANGED <<db, encryptionKey, screen, rng>>
  ELSE IF Len(password) < MIN_MASTER_LENGTH
    THEN /\ toasts' = <<Toast("passwordTooShort", 0)>>
         /\ UNCHANGED <<db, encryptionKey, screen, rng>>
  ELSE LET hs == hashMasterPassword(password, Salt(rng + 1))
           encSaltBytes == Salt(rng + 2)
           d1 == saveSetting(db, "masterHash", hs.hash)
           d2 == saveSetting(d1, "masterSalt", hs.salt)
           d3 == saveSetting(d2, "encryptionSalt", encSaltBytes)
       IN /\ rng < 2 * MaxSetups
          /\ rng' = rng + 2
          /\ db' = d3
          /\ encryptionKey' = deriveKey(password, encSaltBytes)
          /\ toasts' = <<Toast("masterPasswordSet", 0)>>
          /\ screen' = "list-screen"

\* the returning-user branch of handleLogin
handleLoginVerify(password) ==
  LET storedHash == getSetting(db, "masterHash")
      storedSalt == getSetting(db, "masterSalt")
  IN IF verifyThrows(storedSalt)
       THEN /\ toasts' = <<Toast("loginFailed", 0)>>
            /\ UNCHANGED <<db, encryptionKey, passwords, screen, rng>>
     ELSE IF ~verifyMasterPassword(password, storedHash, storedSalt)
       THEN /\ toasts' = <<Toast("wrongPassword", 0)>>
            /\ UNCHANGED <<db, encryptionKey, passwords, screen, rng>>
     ELSE LET salt == getSetting(db, "encryptionSalt")
              key == deriveKey(password, salt)
              loaded == loadPasswords(db, key)
          IN /\ encryptionKey' = key
             /\ db' = loaded.db
             /\ passwords' = loaded.passwords
             /\ toasts' = loaded.toasts
             /\ screen' = "list-screen"
             /\ rng' = rng

handleLogin ==
  /\ screen = "login-screen"
  /\ \E password \in Passphrases, confirmPassword \in Passphrases :
       IF isNewUser
         THEN /\ handleLoginSetup(password, confirmPassword)
              /\ UNCHANGED passwords
         ELSE handleLoginVerify(password)
  /\ UNCHANGED <<currentPasswordId, isNewUser, editMode, sync, remote, pull, pullTimer>>
  /\ UNCHANGED flightVars

\* logout that forgets the key and leaves this.passwords alone
logoutKeepsPasswords ==
  /\ screen = "settings-screen"
  /\ encryptionKey' = Null
  /\ currentPasswordId' = 0
  /\ screen' = "login-screen"
  /\ toasts' = <<Toast("locked", 0)>>
  /\ UNCHANGED <<db, passwords, isNewUser, editMode, rng, sync, remote, pull, pullTimer>>
  /\ UNCHANGED flightVars

logout ==
  /\ screen = "settings-screen"
  /\ encryptionKey' = Null
  /\ passwords' = <<>>
  /\ currentPasswordId' = 0
  /\ screen' = "login-screen"
  /\ toasts' = <<Toast("locked", 0)>>
  /\ UNCHANGED <<db, isNewUser, editMode, rng, sync, remote, pull, pullTimer>>
  /\ UNCHANGED flightVars

(* ---------------------------- App: navigation --------------------------- *)
\* this.passwords.find(p => p.id === id) finds something
Found(id) == \E k \in 1..Len(passwords) : passwords[k].id = id

\* GitHubSync.init: the configuration as stored
GitHubSyncInit(d) ==
  [token |-> getSetting(d, "githubToken"),
   REPO_OWNER |-> getSetting(d, "githubRepoOwner"),
   REPO_NAME |-> getSetting(d, "githubRepoName")]

\* a click on an item of the list
showDetail ==
  /\ screen = "list-screen"
  /\ \E k \in 1..Len(passwords) : currentPasswordId' = passwords[k].id
  /\ screen' = "detail-screen"
  /\ UNCHANGED <<db, encryptionKey, passwords, isNewUser, editMode,
                 rng, sync, remote, pull, pullTimer>>
  /\ toasts' = <<>>
  /\ UNCHANGED flightVars

showAddScreen ==
  /\ screen = "list-screen"
  /\ editMode' = FALSE
  /\ currentPasswordId' = 0
  /\ screen' = "edit-screen"
  /\ UNCHANGED <<db, encryptionKey, passwords, isNewUser,
                 rng, sync, remote, pull, pullTimer>>
  /\ toasts' = <<>>
  /\ UNCHANGED flightVars

showEditScreen ==
  /\ screen = "detail-screen"
  /\ Found(currentPasswordId)
  /\ editMode' = TRUE
  /\ screen' = "edit-screen"
  /\ UNCHANGED <<db, encryptionKey, passwords, currentPasswordId,
                 isNewUser, rng, sync, remote, pull, pullTimer>>
  /\ toasts' = <<>>
  /\ UNCHANGED flightVars

handleEditBack ==
  /\ screen = "edit-screen"
  /\ screen' = IF editMode THEN "detail-screen" ELSE "list-screen"
  /\ toasts' = <<>>
  /\ UNCHANGED <<db, appVars, sync, remote, pull, pullTimer>>
  /\ UNCHANGED flightVars

\* the back buttons of the detail and settings screens, and the settings
\* button of the list; showing the settings screen runs updateSyncUI
showScreen ==
  /\ \/ /\ screen \in {"detail-screen", "settings-screen"}
        /\ screen' = "list-screen"
        /\ sync' = sync
     \/ /\ screen = "list-screen"
        /\ screen' = "settings-screen"
        /\ sync' = GitHubSyncInit(db)
  /\ toasts' = <<>>
  /\ UNCHANGED <<db, appVars, remote, pull, pullTimer>>
  /\ UNCHANGED flightVars

(* ------------------------------ App: records ---------------------------- *)
\* AES.encrypt reads key.words: a TypeError when the key is null
encryptThrows(key) == key = Null

handleSave ==
  /\ screen = "edit-screen"
  /\ \E data \in FormData, iv \in IVs :
       IF encryptThrows(encryptionKey)
         THEN /\ toasts' = <<Toast("saveFailed", 0)>>
              /\ UNCHANGED <<db, passwords, screen>>
       ELSE LET encrypted == encrypt(data, encryptionKey, iv)
            IN IF editMode
                 THEN /\ db' = updatePassword(db, currentPasswordId, encrypted)
                      /\ passwords' =
                           [k \in 1..Len(passwords) |->
                              IF passwords[k].id = currentPasswordId
                                THEN [id |-> currentPasswordId, data |-> data]
                                ELSE passwords[k]]
                      /\ toasts' = <<Toast("updated", 0)>>
                      /\ screen' = IF Found(currentPasswordId)
                                     THEN "detail-screen" ELSE screen
                 ELSE /\ db.keyGen <= MaxId
                      /\ db' = addPassword(db, encrypted)
                      /\ passwords' =
                           Append(passwords,
                                  [id |-> addPasswordId(db, encrypted), data |-> data])
                      /\ toasts' = <<Toast("added", 0)>>
                      /\ screen' = "list-screen"
  /\ UNCHANGED <<encryptionKey, currentPasswordId, isNewUser,
                 editMode, rng, sync, remote, pull, pullTimer>>
  /\ UNCHANGED flightVars

\* the confirm button of the delete modal, opened from the detail screen
handleDelete ==
  /\ screen = "detail-screen"
  /\ currentPasswordId # 0
  /\ db' = deletePassword(db, currentPasswordId)
  /\ passwords' = SelectSeq(passwords, LAMBDA p : p.id # currentPasswordId)
  /\ currentPasswordId' = 0
  /\ toasts' = <<Toast("deleted", 0)>>
  /\ screen' = "list-screen"
  /\ UNCHANGED <<encryptionKey, isNewUser, editMode,
                 rng, sync, remote, pull, pullTimer>>
  /\ UNCHANGED flightVars

(* ----------------------- snapshot files from outside -------------------- *)
\* the vault of another device, set up with "tr0ub4dor&3x" and holding two records
OtherKey == deriveKey("tr0ub4dor&3x", OtherEncryptionSalt)
OtherVault ==
  [version |-> 1,
   masterHash |-> hashMasterPassword("tr0ub4dor&3x", OtherMasterSalt).hash,
   masterSalt |-> OtherMasterSalt,
   encryptionSalt |-> OtherEncryptionSalt,
   passwords |-> << [id |-> 1] @@ encrypt(DataA, OtherKey, 1),
                    [id |-> 2] @@ encrypt(DataB, OtherKey, 1) >>]

\* the same file written by a later release of the format
Version2File == [OtherVault EXCEPT !.version = 2]

\* a file without the passwords field
NoPasswordsFile ==
  [version |-> 1,
   masterHash |-> OtherVault.masterHash,
   masterSalt |-> OtherMasterSalt,
   encryptionSalt |-> OtherEncryptionSalt]

\* what another writer can put into the repository
RemoteSnapshots == {OtherVault, Version2File, NoPasswordsFile}

\* a backup in the plaintext form importData accepts
PlainFile ==
  [version |-> 1,
   passwords |-> << [service |-> "Example", username |-> "alice",
                     password |-> "p@ss"] >>]

\* a backup of one record of the other device's vault
ForeignFile ==
  [version |-> 1,
   passwords |-> << [id |-> 2] @@ encrypt(DataB, OtherKey, 1) >>]

\* what the user can pick in the file dialog, besides a backup of this vault
ImportFiles == {PlainFile, ForeignFile, OtherVault, Version2File, NoPasswordsFile}

(* ------------------------------ App: import ----------------------------- *)
\* pw.service || ''
OrEmpty(pw, name) == IF name \in DOMAIN pw THEN pw[name] ELSE ""

\* the loop of importData from entry k on; ivs[k] is the iv drawn for entry k.
\* ok is FALSE when an addPassword threw, which leaves the loop.
RECURSIVE importLoop(_, _, _, _, _)
importLoop(d, entries, k, key, ivs) ==
  IF k > Len(entries) THEN [db |-> d, ok |-> TRUE]
  ELSE LET pw == entries[k]
       IN IF "ciphertext" \in DOMAIN pw /\ "iv" \in DOMAIN pw
            THEN IF addPasswordThrows(d, pw)
                   THEN [db |-> d, ok |-> FALSE]
                   ELSE importLoop(addPassword(d, pw), entries, k + 1, key, ivs)
          ELSE IF "service" \in DOMAIN pw
            THEN LET passwordData ==
                       [service |-> OrEmpty(pw, "service"),
                        email |-> OrEmpty(pw, "email"),
                        username |-> OrEmpty(pw, "username"),
                        password |-> OrEmpty(pw, "password"),
                        memo |-> OrEmpty(pw, "memo")]
                 IN importLoop(addPassword(d, encrypt(passwordData, key, ivs[k])),
                               entries, k + 1, key, ivs)
          ELSE importLoop(d, entries, k + 1, key, ivs)

\* importData without the test for a key
importOutcomeNoKeyTest(d, key, mem, data, ivs) ==
  IF Field(data, "version") # SNAPSHOT_VERSION
    THEN [db |-> d, passwords |-> mem, toasts |-> <<Toast("unsupportedVersion", 0)>>]
  ELSE IF "passwords" \notin DOMAIN data
    THEN [db |-> d, passwords |-> mem, toasts |-> <<Toast("importFailed", 0)>>]
  ELSE LET done == importLoop(d, data.passwords, 1, key, ivs)
           loaded == loadPasswords(done.db, key)
       IN IF done.ok
            THEN [db |-> loaded.db, passwords |-> loaded.passwords,
                  toasts |-> loaded.toasts \o
                               <<Toast("imported", Len(data.passwords))>>]
            ELSE [db |-> done.db, passwords |-> mem,
                  toasts |-> <<Toast("importFailed", 0)>>]

\* importData on the picked file: the database and the array it leaves and
\* the toasts it shows
importOutcome(d, key, mem, data, ivs) ==
  IF Field(data, "version") # SNAPSHOT_VERSION
    THEN [db |-> d, passwords |-> mem, toasts |-> <<Toast("unsupportedVersion", 0)>>]
  ELSE IF key = Null
    THEN [db |-> d, passwords |-> mem, toasts |-> <<Toast("loginFirst", 0)>>]
  ELSE IF "passwords" \notin DOMAIN data
    THEN [db |-> d, passwords |-> mem, toasts |-> <<Toast("importFailed", 0)>>]
  ELSE LET done == importLoop(d, data.passwords, 1, key, ivs)
           loaded == loadPasswords(done.db, key)
       IN IF done.ok
            THEN [db |-> loaded.db, passwords |-> loaded.passwords,
                  toasts |-> loaded.toasts \o
                               <<Toast("imported", Len(data.passwords))>>]
            ELSE [db |-> done.db, passwords |-> mem,
                  toasts |-> <<Toast("importFailed", 0)>>]

importData ==
  /\ screen = "settings-screen"
  /\ \E data \in ImportFiles \cup {exportData(db)}, ivs \in [1..MaxId -> IVs] :
       LET out == importOutcome(db, encryptionKey, passwords, data, ivs)
       IN /\ out.db.keyGen <= MaxId + 1
          /\ db' = out.db
          /\ passwords' = out.passwords
          /\ toasts' = out.toasts
  /\ UNCHANGED <<encryptionKey, currentPasswordId, isNewUser,
                 editMode, screen, rng, sync, remote, pull, pullTimer>>
  /\ UNCHANGED flightVars

\* the loop of Storage.importData: store.add of every entry as it is in the
\* file, encrypted or not
RECURSIVE storageImportLoop(_, _, _)
storageImportLoop(d, entries, k) ==
  IF k > Len(entries) THEN [db |-> d, ok |-> TRUE]
  ELSE LET pw == entries[k]
           id == addPasswordId(d, pw)
           stored == [f \in (DOMAIN pw) \ {"id"} |-> pw[f]]
       IN IF addPasswordThrows(d, pw) THEN [db |-> d, ok |-> FALSE]
          ELSE storageImportLoop(
                 [d EXCEPT !.passwords = (id :> stored) @@ d.passwords,
                           !.keyGen = IF id >= d.keyGen THEN id + 1 ELSE d.keyGen],
                 entries, k + 1)

\* Storage.importData, which no handler of App calls: the database it leaves,
\* and whether it threw
StorageImportData(d, data) ==
  IF Field(data, "version") # SNAPSHOT_VERSION THEN [db |-> d, threw |-> TRUE]
  ELSE LET d1 == IF Falsy(Field(data, "masterHash")) THEN d
                 ELSE saveSetting(d, "masterHash", data.masterHash)
           d2 == IF Falsy(Field(data, "masterSalt")) THEN d1
                 ELSE saveSetting(d1, "masterSalt", data.masterSalt)
           d3 == IF Falsy(Field(data, "encryptionSalt")) THEN d2
                 ELSE saveSetting(d2, "encryptionSalt", data.encryptionSalt)
       IN IF "passwords" \notin DOMAIN data THEN [db |-> d3, threw |-> TRUE]
          ELSE LET done == storageImportLoop(d3, data.passwords, 1)
               IN [db |-> done.db, threw |-> ~done.ok]

\* the export button: a download of Storage.exportData, nothing is changed
exportDataClick ==
  /\ screen = "settings-screen"
  /\ toasts' = <<Toast("exported", 0)>>
  /\ UNCHANGED <<db, appVars, screen, sync, remote, pull, pullTimer>>
  /\ UNCHANGED flightVars

(* ------------------------------ GitHubSync ------------------------------ *)
\* what the user types into the sync form
String(s) == [t |-> "string", s |-> s]
FormConfig ==
  [token |-> String("ghp_token"), REPO_OWNER |-> String("owner"),
   REPO_NAME |-> String("repo")]

Configured(cfg) ==
  ~Falsy(cfg.token) /\ ~Falsy(cfg.REPO_OWNER) /\ ~Falsy(cfg.REPO_NAME)

\* the three writes of GitHubSync.saveConfig and of GitHubSync.clearConfig
saveConfig(d, cfg) ==
  saveSetting(saveSetting(saveSetting(d, "githubToken", cfg.token),
                          "githubRepoOwner", cfg.REPO_OWNER),
              "githubRepoName", cfg.REPO_NAME)

\* how the repository answers a request
Responses == {"ok", "error"}

saveGitHubConfig ==
  /\ screen = "settings-screen"
  /\ \E isValid \in BOOLEAN :
       IF isValid
         THEN /\ db' = saveConfig(db, FormConfig)
              /\ sync' = FormConfig
              /\ toasts' = <<Toast("validating", 0), Toast("configSaved", 0)>>
         ELSE /\ toasts' = <<Toast("validating", 0), Toast("invalidToken", 0)>>
              /\ UNCHANGED <<db, sync>>
  /\ UNCHANGED <<appVars, screen, remote, pull, pullTimer>>
  /\ UNCHANGED flightVars

\* clearGitHubConfig that clears the stored settings and leaves the fields
\* of GitHubSync set
clearGitHubConfigKeepsFields ==
  /\ screen = "settings-screen"
  /\ db' = saveConfig(db, NoConfig)
  /\ sync' = sync
  /\ toasts' = <<Toast("configCleared", 0)>>
  /\ UNCHANGED <<appVars, screen, remote, pull, pullTimer>>
  /\ UNCHANGED flightVars

clearGitHubConfig ==
  /\ screen = "settings-screen"
  /\ db' = saveConfig(db, NoConfig)
  /\ sync' = NoConfig
  /\ toasts' = <<Toast("configCleared", 0)>>
  /\ UNCHANGED <<appVars, screen, remote, pull, pullTimer>>
  /\ UNCHANGED flightVars

(* ------------------------------ App: pull ------------------------------- *)
\* handleSyncPull without its version check
pullBeginAnyVersion(cfg, file, response) ==
  IF ~Configured(cfg) THEN [pc |-> "end", toast |-> Toast("notConfigured", 0)]
  ELSE IF response = "error" THEN [pc |-> "end", toast |-> Toast("syncFailure", 0)]
  ELSE IF file = NotFound THEN [pc |-> "end", toast |-> Toast("noRemoteData", 0)]
  ELSE [pc |-> "clearAll", data |-> file, i |-> 1]

\* handleSyncPull that takes a missing file for a failed request
pullBeginNotFoundFails(cfg, file, response) ==
  IF ~Configured(cfg) THEN [pc |-> "end", toast |-> Toast("notConfigured", 0)]
  ELSE IF response = "error" THEN [pc |-> "end", toast |-> Toast("syncFailure", 0)]
  ELSE IF file = NotFound THEN [pc |-> "end", toast |-> Toast("syncFailure", 0)]
  ELSE IF Field(file, "version") # SNAPSHOT_VERSION
    THEN [pc |-> "end", toast |-> Toast("unsupportedVersion", 0)]
  ELSE [pc |-> "clearAll", data |-> file, i |-> 1]

\* handleSyncPull up to its first write: GitHubSync.pull, JSON.parse and the
\* version check. The call in flight, or the toast that ends it.
pullBegin(cfg, file, response) ==
  IF ~Configured(cfg) THEN [pc |-> "end", toast |-> Toast("notConfigured", 0)]
  ELSE IF response = "error" THEN [pc |-> "end", toast |-> Toast("syncFailure", 0)]
  ELSE IF file = NotFound THEN [pc |-> "end", toast |-> Toast("noRemoteData", 0)]
  ELSE IF Field(file, "version") # SNAPSHOT_VERSION
    THEN [pc |-> "end", toast |-> Toast("unsupportedVersion", 0)]
  ELSE [pc |-> "clearAll", data |-> file, i |-> 1]

\* where the call goes once the settings are written: into the loop over
\* data.passwords, past it when it is empty, or into the catch when it is missing
pullLoopEntry(p) ==
  IF "passwords" \notin DOMAIN p.data THEN [p EXCEPT !.pc = "failed"]
  ELSE IF Len(p.data.passwords) = 0 THEN [p EXCEPT !.pc = "done"]
  ELSE [p EXCEPT !.pc = "addPassword", !.i = 1]

\* the store calls of a handleSyncPull that does not write the sync
\* configuration back after the clearAll
pullStepNoSaveConfig(p, d, cfg) ==
  CASE p.pc = "clearAll" ->
         [db |-> clearAll(d), pull |-> [p EXCEPT !.pc = "masterHash"]]
    [] p.pc = "masterHash" ->
         [db |-> IF Falsy(Field(p.data, "masterHash")) THEN d
                 ELSE saveSetting(d, "masterHash", p.data.masterHash),
          pull |-> [p EXCEPT !.pc = "masterSalt"]]
    [] p.pc = "masterSalt" ->
         [db |-> IF Falsy(Field(p.data, "masterSalt")) THEN d
                 ELSE saveSetting(d, "masterSalt", p.data.masterSalt),
          pull |-> [p EXCEPT !.pc = "encryptionSalt"]]
    [] p.pc = "encryptionSalt" ->
         [db |-> IF Falsy(Field(p.data, "encryptionSalt")) THEN d
                 ELSE saveSetting(d, "encryptionSalt", p.data.encryptionSalt),
          pull |-> [p EXCEPT !.pc = "saveConfig"]]
    [] p.pc = "saveConfig" ->
         [db |-> d, pull |-> pullLoopEntry(p)]
    [] p.pc = "addPassword" ->
         LET pw == p.data.passwords[p.i]
         IN IF addPasswordThrows(d, pw)
              THEN [db |-> d, pull |-> [p EXCEPT !.pc = "failed"]]
              ELSE [db |-> addPassword(d, pw),
                    pull |-> IF p.i = Len(p.data.passwords)
                               THEN [p EXCEPT !.pc = "done"]
                               ELSE [p EXCEPT !.i = p.i + 1]]

\* one awaited store call of handleSyncPull
pullStep(p, d, cfg) ==
  CASE p.pc = "clearAll" ->
         [db |-> clearAll(d), pull |-> [p EXCEPT !.pc = "masterHash"]]
    [] p.pc = "masterHash" ->
         [db |-> IF Falsy(Field(p.data, "masterHash")) THEN d
                 ELSE saveSetting(d, "masterHash", p.data.masterHash),
          pull |-> [p EXCEPT !.pc = "masterSalt"]]
    [] p.pc = "masterSalt" ->
         [db |-> IF Falsy(Field(p.data, "masterSalt")) THEN d
                 ELSE saveSetting(d, "masterSalt", p.data.masterSalt),
          pull |-> [p EXCEPT !.pc = "encryptionSalt"]]
    [] p.pc = "encryptionSalt" ->
         [db |-> IF Falsy(Field(p.data, "encryptionSalt")) THEN d
                 ELSE saveSetting(d, "encryptionSalt", p.data.encryptionSalt),
          pull |-> [p EXCEPT !.pc = "saveConfig"]]
    [] p.pc = "saveConfig" ->
         [db |-> saveConfig(d, cfg), pull |-> pullLoopEntry(p)]
    [] p.pc = "addPassword" ->
         LET pw == p.data.passwords[p.i]
         IN IF addPasswordThrows(d, pw)
              THEN [db |-> d, pull |-> [p EXCEPT !.pc = "failed"]]
              ELSE [db |-> addPassword(d, pw),
                    pull |-> IF p.i = Len(p.data.passwords)
                               THEN [p EXCEPT !.pc = "done"]
                               ELSE [p EXCEPT !.i = p.i + 1]]

RECURSIVE pullRun(_, _, _)
pullRun(p, d, cfg) ==
  IF p.pc \in {"done", "failed"} THEN [db |-> d, pull |-> p]
  ELSE LET r == pullStep(p, d, cfg) IN pullRun(r.pull, r.db, cfg)

\* the end of handleSyncPull once the store calls are through: the session is
\* cleared and the timer set, or the catch shows the error
pullEnd(r, shown) ==
  /\ db' = r.db
  /\ pull' = [pc |-> "idle"]
  /\ IF r.pull.pc = "done"
       THEN /\ encryptionKey' = Null
            /\ toasts' = Append(shown, Toast("synced", Len(r.pull.data.passwords)))
            /\ pullTimer' = TRUE
       ELSE /\ toasts' = Append(shown, Toast("pullFailed", 0))
            /\ UNCHANGED <<encryptionKey, pullTimer>>

\* handleSyncPull that clears the store before it asks the repository
handleSyncPullClearsFirst ==
  /\ screen = "settings-screen"
  /\ \E response \in Responses :
       LET p == pullBegin(sync, remote, response)
       IN IF p.pc = "end"
            THEN /\ toasts' = <<Toast("pulling", 0), p.toast>>
                 /\ db' = IF p.toast.msg = "syncFailure" THEN clearAll(db) ELSE db
                 /\ UNCHANGED <<encryptionKey, pull, pullTimer>>
            ELSE pullEnd(pullRun(p, db, sync), <<Toast("pulling", 0)>>)
  /\ UNCHANGED <<passwords, currentPasswordId, isNewUser, editMode, screen,
                 rng, sync, remote>>
  /\ UNCHANGED flightVars

\* handleSyncPull run from the click to its end with nothing in between
handleSyncPull ==
  /\ screen = "settings-screen"
  /\ \E response \in Responses :
       LET p == pullBegin(sync, remote, response)
       IN IF p.pc = "end"
            THEN /\ toasts' = <<Toast("pulling", 0), p.toast>>
                 /\ UNCHANGED <<db, encryptionKey, pull, pullTimer>>
            ELSE pullEnd(pullRun(p, db, sync), <<Toast("pulling", 0)>>)
  /\ UNCHANGED <<passwords, currentPasswordId, isNewUser, editMode, screen,
                 rng, sync, remote>>
  /\ UNCHANGED flightVars

\* the callback of the setTimeout(…, 1500) that a pull leaves behind
pullTimeout ==
  /\ pullTimer
  /\ pullTimer' = FALSE
  /\ isNewUser' = FALSE
  /\ screen' = "login-screen"
  /\ toasts' = <<>>
  /\ UNCHANGED <<db, encryptionKey, passwords, currentPasswordId,
                 editMode, rng, sync, remote, pull>>
  /\ UNCHANGED flightVars

(* ------------------------------ App: push ------------------------------- *)
\* the sha the Contents API reports for a file: the git blob id, a function
\* of the content alone
Sha(file) == [t |-> "sha", of |-> file]

\* GitHubSync.pull with configuration cfg when the repository holds file and
\* answers with response: what it returns, or what it throws
GitHubSyncPull(cfg, file, response) ==
  IF ~Configured(cfg) THEN [t |-> "throw", msg |-> "notConfigured"]
  ELSE IF response = "error" THEN [t |-> "throw", msg |-> "syncFailure"]
  ELSE IF file = NotFound THEN Null
  ELSE [t |-> "result", content |-> file, sha |-> Sha(file)]

\* GitHubSync.push that sends the PUT without looking up the sha first
GitHubSyncPushNoSha(cfg, file, content, pullResponse, putResponse) ==
  IF ~Configured(cfg)
    THEN [threw |-> TRUE, msg |-> "notConfigured", remote |-> file, sent |-> FALSE]
  ELSE LET sha == Null
           accepted == /\ putResponse = "ok"
                       /\ IF file = NotFound THEN sha = Null ELSE sha = Sha(file)
       IN IF accepted
            THEN [threw |-> FALSE, remote |-> content, sha |-> Sha(content),
                  sent |-> TRUE]
            ELSE [threw |-> TRUE, msg |-> "syncFailure", remote |-> file,
                  sent |-> TRUE]

\* GitHubSync.push of content: the pull for the sha, whose failure is
\* swallowed, then the PUT. The repository takes a PUT for a file that exists
\* only with that file's sha. What push leaves in the repository, and what
\* it returns or throws; sent tells whether a request went out.
GitHubSyncPush(cfg, file, content, pullResponse, putResponse) ==
  IF ~Configured(cfg)
    THEN [threw |-> TRUE, msg |-> "notConfigured", remote |-> file, sent |-> FALSE]
  ELSE LET existing == GitHubSyncPull(cfg, file, pullResponse)
           sha == IF existing.t = "result" THEN existing.sha ELSE Null
           accepted == /\ putResponse = "ok"
                       /\ IF file = NotFound THEN sha = Null ELSE sha = Sha(file)
       IN IF accepted
            THEN [threw |-> FALSE, remote |-> content, sha |-> Sha(content),
                  sent |-> TRUE]
            ELSE [threw |-> TRUE, msg |-> "syncFailure", remote |-> file,
                  sent |-> TRUE]

handleSyncPush ==
  /\ screen = "settings-screen"
  /\ \E pullResponse \in Responses, putResponse \in Responses :
       LET r == GitHubSyncPush(sync, remote, exportData(db), pullResponse, putResponse)
       IN /\ toasts' = <<Toast("pushing", 0),
                         IF r.threw THEN Toast(r.msg, 0) ELSE Toast("pushed", 0)>>
          /\ remote' = r.remote
  /\ UNCHANGED <<db, appVars, screen, sync, pull, pullTimer>>
  /\ UNCHANGED flightVars

(* ----------------------------- environment ------------------------------ *)
\* another device pushes its vault, or someone edits the file
remoteWrite ==
  /\ \E file \in RemoteSnapshots : remote' = file
  /\ UNCHANGED <<db, appVars, screen, toasts, sync, pull, pullTimer>>
  /\ UNCHANGED flightVars

\* the page is loaded again: DOMContentLoaded runs App.init on the database
reload ==
  /\ db' = db
  /\ encryptionKey' = Null
  /\ passwords' = <<>>
  /\ currentPasswordId' = 0
  /\ isNewUser' = Falsy(getSetting(db, "masterHash"))
  /\ editMode' = FALSE
  /\ screen' = "login-screen"
  /\ toasts' = <<>>
  /\ sync' = NoConfig
  /\ pull' = PullIdle
  /\ pullTimer' = FALSE
  /\ push' = PushIdle
  /\ logins' = <<>>
  /\ idb' = <<>>
  /\ UNCHANGED <<rng, remote, committed, call, gen, sw>>

(* --------------------------- specifications ----------------------------- *)
\* every handler runs to its end before the next one starts
Next ==
  \/ handleLogin
  \/ logout
  \/ showDetail
  \/ showAddScreen
  \/ showEditScreen
  \/ handleEditBack
  \/ showScreen
  \/ handleSave
  \/ handleDelete
  \/ importData
  \/ exportDataClick
  \/ saveGitHubConfig
  \/ clearGitHubConfig
  \/ handleSyncPull
  \/ pullTimeout
  \/ remoteWrite
  \/ reload

Spec == Init /\ [][Next]_vars

\* the handlers that take a vault to the repository and back, with
\* handleSyncPush among them
NextSync ==
  \/ handleLogin
  \/ logout
  \/ showAddScreen
  \/ showScreen
  \/ handleSave
  \/ saveGitHubConfig
  \/ clearGitHubConfig
  \/ handleSyncPull
  \/ pullTimeout
  \/ handleSyncPush
  \/ remoteWrite
  \/ reload

SpecSync == Init /\ [][NextSync]_vars

(* --------------------- direct calls of CryptoUtils ---------------------- *)
\* the keys a caller can hold: what deriveKey makes of a passphrase and the
\* encryption salt of this vault or of another one
CallKeys ==
  {deriveKey(p, salt) : p \in GoodPassphrases,
                        salt \in {Salt(2), OtherEncryptionSalt, Salt(-3)}}

progVars == <<db, encryptionKey, passwords, currentPasswordId, isNewUser, editMode,
              screen, toasts, rng, sync, remote, pull, pullTimer, push, logins,
              idb, committed>>

\* CryptoUtils.encrypt(data, key), with the iv it draws
callEncrypt ==
  /\ \E data \in FormData, key \in CallKeys, iv \in IVs :
       call' = [op |-> "encrypt", data |-> data, key |-> key,
                out |-> encrypt(data, key, iv)]
  /\ UNCHANGED <<progVars, gen, sw>>

\* CryptoUtils.decrypt of what the last encrypt returned, under a key of
\* the caller's choice
callDecrypt ==
  /\ call.op = "encrypt"
  /\ \E key \in CallKeys :
       LET threw == decryptThrows(call.out.ciphertext, call.out.iv, key)
       IN call' = [op |-> "decrypt", data |-> call.data, madeWith |-> call.key,
                   key |-> key, threw |-> threw,
                   out |-> IF threw THEN Undefined
                           ELSE decrypt(call.out.ciphertext, call.out.iv, key)]
  /\ UNCHANGED <<progVars, gen, sw>>

\* CryptoUtils.hashMasterPassword(password), with the salt it draws
callHashMasterPassword ==
  /\ \E password \in Passphrases, n \in 1..(2 * MaxSetups) :
       call' = [op |-> "hashMasterPassword", password |-> password,
                out |-> hashMasterPassword(password, Salt(n))]
  /\ UNCHANGED <<progVars, gen, sw>>

\* CryptoUtils.verifyMasterPassword of a password against what the last
\* hashMasterPassword returned
callVerifyMasterPassword ==
  /\ call.op = "hashMasterPassword"
  /\ \E password \in Passphrases :
       call' = [op |-> "verifyMasterPassword", hashed |-> call.password,
                password |-> password,
                out |-> verifyMasterPassword(password, call.out.hash, call.out.salt)]
  /\ UNCHANGED <<progVars, gen, sw>>

NextCrypto ==
  \/ callEncrypt
  \/ callDecrypt
  \/ callHashMasterPassword
  \/ callVerifyMasterPassword

SpecCrypto == Init /\ [][NextCrypto]_vars

(* ------------------- handlers that run interleaved ---------------------- *)
\* A handler is an async function: it runs to its next await, and the page
\* takes other events until what it awaits is there. Requests on an object
\* store are served in the order in which they were made.

\* how many handleLogin calls are in flight at once
MaxLogins == 2

\* the object stores that the pending request at place k of idb works on
StoresOf(k) ==
  CASE idb[k] = "login" -> {"settings"}
    [] idb[k] = "pull" ->
         IF pull.pc = "clearAll" THEN {"passwords", "settings"}
         ELSE IF pull.pc = "addPassword" THEN {"passwords"}
         ELSE {"settings"}
    [] idb[k] = "push" ->
         IF push.pc = "getAllPasswords" THEN {"passwords"} ELSE {"settings"}

\* the request at place k is served: none made before it is on its stores
Served(k) == \A j \in 1..(k - 1) : StoresOf(j) \cap StoresOf(k) = {}

Without(k) == SubSeq(idb, 1, k - 1) \o SubSeq(idb, k + 1, Len(idb))

\* no call that writes the vault is between two of its store requests
Quiet(p, ls) == p.pc \in {"idle", "fetch"} /\ ls = <<>>

\* what the store held between operations: the last such snapshot, and all
\* of them for as long as a push is in flight
Commit ==
  committed' =
    IF ~Quiet(pull', logins') THEN committed
    ELSE IF push.pc = "idle" \/ push'.pc = "idle" THEN {exportData(db')}
    ELSE committed \cup {exportData(db')}

\* the first-time form is submitted: handleLogin up to its first store request
loginSubmit ==
  /\ screen = "login-screen"
  /\ isNewUser
  /\ Len(logins) < MaxLogins
  /\ \E password \in Passphrases, confirmPassword \in Passphrases :
       IF password # confirmPassword
         THEN /\ toasts' = <<Toast("passwordMismatch", 0)>>
              /\ UNCHANGED <<logins, idb, rng>>
       ELSE IF Len(password) < MIN_MASTER_LENGTH
         THEN /\ toasts' = <<Toast("passwordTooShort", 0)>>
              /\ UNCHANGED <<logins, idb, rng>>
       ELSE /\ rng + 2 + Cardinality({j \in 1..Len(logins) :
                                        logins[j].pc # "encryptionSalt"})
                 <= 2 * MaxSetups
            /\ rng' = rng + 1
            /\ logins' = Append(logins,
                                [pc |-> "masterHash", password |-> password,
                                 hs |-> hashMasterPassword(password, Salt(rng + 1)),
                                 encryptionSalt |-> Null])
            /\ idb' = Append(idb, "login")
            /\ UNCHANGED toasts
  /\ UNCHANGED <<db, encryptionKey, passwords, currentPasswordId, isNewUser,
                 editMode, screen, sync, remote, pull, pullTimer, push,
                 committed, call, gen, sw>>

\* a saveSetting of handleLogin is through, and the call runs to its next one
\* or to its end
loginRequest ==
  /\ \E k \in 1..Len(idb) :
       /\ idb[k] = "login"
       /\ Served(k)
       /\ LET l == Head(logins)
          IN CASE l.pc = "masterHash" ->
                    /\ db' = saveSetting(db, "masterHash", l.hs.hash)
                    /\ logins' = Append(Tail(logins), [l EXCEPT !.pc = "masterSalt"])
                    /\ idb' = Append(Without(k), "login")
                    /\ UNCHANGED <<encryptionKey, screen, toasts, rng>>
               [] l.pc = "masterSalt" ->
                    /\ db' = saveSetting(db, "masterSalt", l.hs.salt)
                    /\ rng' = rng + 1
                    /\ logins' = Append(Tail(logins),
                                        [l EXCEPT !.pc = "encryptionSalt",
                                                  !.encryptionSalt = Salt(rng + 1)])
                    /\ idb' = Append(Without(k), "login")
                    /\ UNCHANGED <<encryptionKey, screen, toasts>>
               [] l.pc = "encryptionSalt" ->
                    /\ db' = saveSetting(db, "encryptionSalt", l.encryptionSalt)
                    /\ encryptionKey' = deriveKey(l.password, l.encryptionSalt)
                    /\ toasts' = <<Toast("masterPasswordSet", 0)>>
                    /\ screen' = "list-screen"
                    /\ logins' = Tail(logins)
                    /\ idb' = Without(k)
                    /\ UNCHANGED rng
  /\ UNCHANGED <<passwords, currentPasswordId, isNewUser, editMode, sync,
                 remote, pull, pullTimer, push, call, gen, sw>>
  /\ Commit

\* the pull button: handleSyncPull up to the request it sends to the repository
pullClick ==
  /\ screen = "settings-screen"
  /\ pull.pc = "idle"
  /\ pull' = [pc |-> "fetch"]
  /\ toasts' = <<Toast("pulling", 0)>>
  /\ UNCHANGED <<db, appVars, screen, sync, remote, pullTimer, flightVars>>

\* the repository has answered: the call ends, or makes its first store request
pullFetched ==
  /\ pull.pc = "fetch"
  /\ \E response \in Responses :
       LET p == pullBegin(sync, remote, response)
       IN IF p.pc = "end"
            THEN /\ toasts' = <<Toast("pulling", 0), p.toast>>
                 /\ pull' = PullIdle
                 /\ UNCHANGED idb
            ELSE /\ pull' = p
                 /\ idb' = Append(idb, "pull")
                 /\ UNCHANGED toasts
  /\ UNCHANGED <<db, appVars, screen, sync, remote, pullTimer, push, logins, call, gen, sw>>
  /\ Commit

\* the three saveSetting calls of GitHubSync.saveConfig are three requests:
\* the write that request i makes
saveConfigWrite(d, cfg, i) ==
  saveSetting(d, <<"githubToken", "githubRepoOwner", "githubRepoName">>[i],
              <<cfg.token, cfg.REPO_OWNER, cfg.REPO_NAME>>[i])

\* a store request of handleSyncPull is through, and the call runs to its next
\* one or to its end
pullRequest ==
  /\ \E k \in 1..Len(idb) :
       /\ idb[k] = "pull"
       /\ Served(k)
       /\ LET r == IF pull.pc = "saveConfig" /\ pull.i < 3
                     THEN [db |-> saveConfigWrite(db, sync, pull.i),
                           pull |-> [pull EXCEPT !.i = pull.i + 1]]
                     ELSE pullStep(pull, db, sync)
          IN IF r.pull.pc \in {"done", "failed"}
               THEN /\ pullEnd(r, <<Toast("pulling", 0)>>)
                    /\ idb' = Without(k)
               ELSE /\ db' = r.db
                    /\ pull' = r.pull
                    /\ idb' = Append(Without(k), "pull")
                    /\ UNCHANGED <<encryptionKey, toasts, pullTimer>>
  /\ UNCHANGED <<passwords, currentPasswordId, isNewUser, editMode, screen,
                 rng, sync, remote, push, logins, call, gen, sw>>
  /\ Commit

\* the push button: handleSyncPush up to the first read of Storage.exportData
pushClick ==
  /\ screen = "settings-screen"
  /\ push.pc = "idle"
  /\ push' = [pc |-> "getAllPasswords", data |-> [version |-> SNAPSHOT_VERSION]]
  /\ idb' = Append(idb, "push")
  /\ toasts' = <<Toast("pushing", 0)>>
  /\ UNCHANGED <<db, appVars, screen, sync, remote, pull, pullTimer, logins, call, gen, sw>>
  /\ Commit

\* a read of Storage.exportData is through; after the last one the snapshot
\* is made and GitHubSync.push sends its requests
pushRequest ==
  /\ \E k \in 1..Len(idb) :
       /\ idb[k] = "push"
       /\ Served(k)
       /\ LET read(key, next) ==
                [pc |-> next,
                 data |-> IF getSetting(db, key) = Undefined THEN push.data
                          ELSE (key :> getSetting(db, key)) @@ push.data]
          IN CASE push.pc = "getAllPasswords" ->
                    /\ push' = [pc |-> "masterHash",
                                data |-> ("passwords" :> getAllPasswords(db)) @@ push.data]
                    /\ idb' = Append(Without(k), "push")
               [] push.pc = "masterHash" ->
                    /\ push' = read("masterHash", "masterSalt")
                    /\ idb' = Append(Without(k), "push")
               [] push.pc = "masterSalt" ->
                    /\ push' = read("masterSalt", "encryptionSalt")
                    /\ idb' = Append(Without(k), "push")
               [] push.pc = "encryptionSalt" ->
                    /\ push' = read("encryptionSalt", "put")
                    /\ idb' = Without(k)
  /\ UNCHANGED <<db, appVars, screen, toasts, sync, remote, pull, pullTimer,
                 logins, committed, call, gen, sw>>

\* GitHubSync.push has its answers: the end of handleSyncPush
pushPut ==
  /\ push.pc = "put"
  /\ \E pullResponse \in Responses, putResponse \in Responses :
       LET r == GitHubSyncPush(sync, remote, push.data, pullResponse, putResponse)
       IN /\ toasts' = <<Toast("pushing", 0),
                         IF r.threw THEN Toast(r.msg, 0) ELSE Toast("pushed", 0)>>
          /\ remote' = r.remote
  /\ push' = PushIdle
  /\ UNCHANGED <<db, appVars, screen, sync, pull, pullTimer, logins, idb, call, gen, sw>>
  /\ Commit

\* the first-time set-up, the pull and the push as calls that interleave,
\* with the handlers that lead to them; the repository holds what this
\* device has pushed
NextAsync ==
  \/ loginSubmit
  \/ loginRequest
  \/ showScreen
  \/ saveGitHubConfig
  \/ pullClick
  \/ pullFetched
  \/ pullRequest
  \/ pullTimeout
  \/ pushClick
  \/ pushRequest
  \/ pushPut

SpecAsync == Init /\ [][NextAsync]_vars

\* the first-time set-up as calls that interleave, on a page that can be
\* closed and loaded again at any moment
NextSetup ==
  \/ loginSubmit
  \/ loginRequest
  \/ reload

SpecSetup == Init /\ [][NextSetup]_vars

(* --------------------------- PasswordGenerator -------------------------- *)
\* the character classes, a string as the sequence of its characters
LOWERCASE ==
  <<"a", "b", "c", "d", "e", "f", "g", "h", "i", "j", "k", "l", "m",
    "n", "o", "p", "q", "r", "s", "t", "u", "v", "w", "x", "y", "z">>
UPPERCASE ==
  <<"A", "B", "C", "D", "E", "F", "G", "H", "I", "J", "K", "L", "M",
    "N", "O", "P", "Q", "R", "S", "T", "U", "V", "W", "X", "Y", "Z">>
NUMBERS == <<"0", "1", "2", "3", "4", "5", "6", "7", "8", "9">>
SYMBOLS ==
  <<"!", "@", "#", "$", "%", "^", "&", "*", "(", ")", "_", "+", "-",
    "=", "[", "]", "{", "}", "|", ";", ":", ",", ".", "<", ">", "?">>

\* the longest password asked for
MaxLength == 4

\* the values crypto.getRandomValues puts into a byte, a few of the 256
ByteValues == {0, 30, 57, 70, 255}

\* what a caller passes to generate
GenerateOptions ==
  [length : 0..MaxLength, lowercase : BOOLEAN, uppercase : BOOLEAN,
   numbers : BOOLEAN, symbols : BOOLEAN]

\* the characters the password is drawn from
charset(options) ==
  LET chosen == (IF options.lowercase THEN LOWERCASE ELSE <<>>)
                \o (IF options.uppercase THEN UPPERCASE ELSE <<>>)
                \o (IF options.numbers THEN NUMBERS ELSE <<>>)
                \o (IF options.symbols THEN SYMBOLS ELSE <<>>)
  IN IF Len(chosen) = 0 THEN LOWERCASE \o UPPERCASE \o NUMBERS ELSE chosen

\* the classes generate looks for afterwards: the characters to take one
\* from, and the set of characters that the regular expression accepts
checks(options) ==
  (IF options.lowercase
     THEN <<[chars |-> LOWERCASE, has |-> {LOWERCASE[i] : i \in 1..26}]>>
     ELSE <<>>)
  \o (IF options.uppercase
        THEN <<[chars |-> UPPERCASE, has |-> {UPPERCASE[i] : i \in 1..26}]>>
        ELSE <<>>)
  \o (IF options.numbers
        THEN <<[chars |-> NUMBERS, has |-> {NUMBERS[i] : i \in 1..10}]>>
        ELSE <<>>)
  \o (IF options.symbols
        THEN <<[chars |-> SYMBOLS,
                has |-> {"!", "@", "#", "$", "%", "^", "&", "*", "(", ")",
                         "_", "+", "-", "=", "[", "]", "{", "}", "|", ";",
                         ":", ",", ".", "<", ">", "?"}]>>
        ELSE <<>>)

\* has.test(password)
test(has, password) == \E i \in 1..Len(password) : password[i] \in has

\* generate is called: the options are read and the character set is made
generateCall ==
  /\ gen.pc \in {"idle", "done"}
  /\ \E options \in GenerateOptions :
       gen' = [pc |-> IF options.length > 0 THEN "fill"
                      ELSE IF Len(checks(options)) > 0 THEN "checks" ELSE "done",
               options |-> options, password |-> <<>>, k |-> 1]
  /\ UNCHANGED <<progVars, call, sw>>

\* one round of the loop that draws the password from the character set
generateFill ==
  /\ gen.pc = "fill"
  /\ \E byte \in ByteValues :
       LET cs == charset(gen.options)
           password == Append(gen.password, cs[(byte % Len(cs)) + 1])
       IN gen' = [gen EXCEPT
                    !.password = password,
                    !.pc = IF Len(password) < gen.options.length THEN "fill"
                           ELSE IF Len(checks(gen.options)) > 0 THEN "checks"
                           ELSE "done"]
  /\ UNCHANGED <<progVars, call, sw>>

\* one round of the loop over the checks: a class that the password lacks
\* gets one of its characters written at a drawn position. With length 0
\* the position is NaN, and substring puts the character in front.
generateCheck ==
  /\ gen.pc = "checks"
  /\ LET check == checks(gen.options)[gen.k]
         length == gen.options.length
         pc == IF gen.k < Len(checks(gen.options)) THEN "checks" ELSE "done"
     IN IF test(check.has, gen.password)
          THEN gen' = [gen EXCEPT !.k = gen.k + 1, !.pc = pc]
          ELSE \E posByte \in ByteValues, charByte \in ByteValues :
                 LET char == check.chars[(charByte % Len(check.chars)) + 1]
                     password ==
                       IF length = 0 THEN <<char>> \o gen.password
                       ELSE LET pos == posByte % length
                            IN SubSeq(gen.password, 1, pos) \o <<char>>
                               \o SubSeq(gen.password, pos + 2, Len(gen.password))
                 IN gen' = [gen EXCEPT !.password = password,
                                       !.k = gen.k + 1, !.pc = pc]
  /\ UNCHANGED <<progVars, call, sw>>

NextGen ==
  \/ generateCall
  \/ generateFill
  \/ generateCheck

SpecGen == Init /\ [][NextGen]_vars

(* ---------------------------- service worker --------------------------- *)
\* A URL is the sequence of the pieces of its string, the path last; the
\* pieces before the path are its origin.
CACHE_NAME == "password-manager-v10"

\* self.location.origin, a string
origin == <<"https://pm.example">>

ASSETS ==
  {origin \o <<path>> :
     path \in {"/", "/index.html", "/css/style.css", "/js/app.js", "/js/crypto.js",
               "/js/storage.js", "/js/password-generator.js", "/js/github-sync.js",
               "/manifest.json", "/icons/icon-192.png", "/icons/icon-512.png"}}

\* the names of the caches that earlier versions of the worker have made
OldCacheNames == {"password-manager-v9", "password-manager-v8"}

\* the GET requests of the pages: an asset, a file of the origin that is no
\* asset, a font of another origin, and a file of another origin whose host
\* name begins with the host name of this one
Requests ==
  {origin \o <<"/index.html">>, origin \o <<"/data.json">>,
   <<"https://fonts.example">> \o <<"/css">>,
   origin \o <<".evil.example">> \o <<"/css">>}

\* what fetch(request) comes to: a response with its status, or a rejection
Rejected == [t |-> "rejected"]
Response(url, status, from) == [t |-> "response", url |-> url, status |-> status, from |-> from]
NetworkOutcomes(url) ==
  {Response(url, 200, "network"), Response(url, 404, "network"), Rejected}

\* String.prototype.startsWith
startsWith(url, prefix) ==
  Len(url) >= Len(prefix) /\ SubSeq(url, 1, Len(prefix)) = prefix

\* caches.open(name): the cache of that name, made when there is none
cachesOpen(caches, name) ==
  IF \E i \in 1..Len(caches) : caches[i].name = name THEN caches
  ELSE Append(caches, [name |-> name, entries |-> {}])

\* cache.put(request, response) on the cache of that name
cachePut(caches, name, response) ==
  [i \in 1..Len(caches) |->
     IF caches[i].name = name
       THEN [caches[i] EXCEPT
               !.entries = {e \in @ : e.url # response.url} \cup {response}]
       ELSE caches[i]]

\* caches.match(request): the response of the first cache, in the order of
\* their making, that holds one, or undefined
cachesMatch(caches, url) ==
  LET hits == {i \in 1..Len(caches) : \E e \in caches[i].entries : e.url = url}
  IN IF hits = {} THEN Undefined
     ELSE LET first == CHOOSE i \in hits : \A j \in hits : i <= j
          IN CHOOSE e \in caches[first].entries : e.url = url

\* an activate listener that deletes only the oldest of the other caches
staleCachesOldestOnly(cacheNames) ==
  LET stale == SelectSeq(cacheNames, LAMBDA name : name # CACHE_NAME)
  IN IF Len(stale) = 0 THEN {} ELSE {stale[1]}

\* the names the activate listener passes to caches.delete
staleCaches(cacheNames) ==
  {cacheNames[i] : i \in {j \in 1..Len(cacheNames) : cacheNames[j] # CACHE_NAME}}

\* an earlier version of the worker has left a cache behind
oldVersion ==
  /\ sw.phase \in {"parsed", "installed"}
  /\ \E name \in OldCacheNames, cached \in SUBSET {origin \o <<"/index.html">>} :
       /\ \A i \in 1..Len(sw.caches) : sw.caches[i].name # name
       /\ sw' = [sw EXCEPT !.caches =
                   Append(@, [name |-> name,
                              entries |-> {Response(u, 200, name) : u \in cached}])]
  /\ UNCHANGED <<progVars, call, gen>>

\* the install listener: the cache is opened and takes all the assets or,
\* when one of them cannot be fetched, none; then skipWaiting
install ==
  /\ sw.phase = "parsed"
  /\ \E added \in BOOLEAN :
       LET opened == cachesOpen(sw.caches, CACHE_NAME)
       IN sw' = [sw EXCEPT
                   !.caches = IF added
                                THEN [i \in 1..Len(opened) |->
                                        IF opened[i].name = CACHE_NAME
                                          THEN [opened[i] EXCEPT !.entries =
                                                  {Response(u, 200, CACHE_NAME) : u \in ASSETS}]
                                          ELSE opened[i]]
                                ELSE opened,
                   !.phase = IF added THEN "installed" ELSE "redundant"]
  /\ UNCHANGED <<progVars, call, gen>>

\* the activate listener up to Promise.all: caches.keys() and the calls of
\* caches.delete for the names that are not CACHE_NAME
activate ==
  /\ sw.phase = "installed"
  /\ LET cacheNames == [i \in 1..Len(sw.caches) |-> sw.caches[i].name]
     IN sw' = [sw EXCEPT !.phase = "activating", !.names = cacheNames,
                         !.deletes = staleCaches(cacheNames)]
  /\ UNCHANGED <<progVars, call, gen>>

\* one caches.delete(name) is through
cachesDelete ==
  /\ sw.phase = "activating"
  /\ \E name \in sw.deletes :
       sw' = [sw EXCEPT !.deletes = @ \ {name},
                        !.caches = SelectSeq(@, LAMBDA c : c.name # name)]
  /\ UNCHANGED <<progVars, call, gen>>

\* Promise.all is settled: clients.claim(), and the listener is through
claim ==
  /\ sw.phase = "activating"
  /\ sw.deletes = {}
  /\ sw' = [sw EXCEPT !.phase = "activated"]
  /\ UNCHANGED <<progVars, call, gen>>

\* the fetch listener for one request, up to the response it hands to
\* respondWith; the cache.put it starts for a local miss is left pending
fetch ==
  /\ sw.phase = "activated"
  /\ \E url \in Requests : \E outcome \in NetworkOutcomes(url) :
       LET cachedResponse == cachesMatch(sw.caches, url)
       IN IF ~startsWith(url, origin)
            THEN sw' = [sw EXCEPT !.last =
                          [url |-> url, cached |-> cachedResponse, fetched |-> TRUE,
                           outcome |-> outcome, put |-> FALSE,
                           answer |-> IF outcome = Rejected THEN cachedResponse
                                      ELSE outcome]]
          ELSE IF cachedResponse # Undefined
            THEN sw' = [sw EXCEPT !.last =
                          [url |-> url, cached |-> cachedResponse, fetched |-> FALSE,
                           outcome |-> NoFetch, put |-> FALSE,
                           answer |-> cachedResponse]]
          ELSE sw' = [sw EXCEPT
                        !.last = [url |-> url, cached |-> cachedResponse,
                                  fetched |-> TRUE, outcome |-> outcome,
                                  put |-> outcome # Rejected /\ outcome.status = 200,
                                  answer |-> outcome],
                        !.puts = IF outcome # Rejected /\ outcome.status = 200
                                   THEN @ \cup {outcome} ELSE @]
  /\ UNCHANGED <<progVars, call, gen>>

\* a pending caches.open(CACHE_NAME).then(cache => cache.put(...)) is through
cachePutDone ==
  /\ \E response \in sw.puts :
       sw' = [sw EXCEPT !.puts = @ \ {response},
                        !.caches = cachePut(cachesOpen(@, CACHE_NAME), CACHE_NAME,
                                            response)]
  /\ UNCHANGED <<progVars, call, gen>>

NextWorker ==
  \/ oldVersion
  \/ install
  \/ activate
  \/ cachesDelete
  \/ claim
  \/ fetch
  \/ cachePutDone

SpecWorker == Init /\ [][NextWorker]_vars

(* ------------------------- vocabulary of the claims --------------------- *)
Credentials(d) ==
  [k \in {"masterHash", "masterSalt", "encryptionSalt"} |-> d.settings[k]]

HasMaster(d) == ~Falsy(getSetting(d, "masterHash"))

Decryptable(d, id, key) ==
  ~decryptThrows(d.passwords[id].ciphertext, d.passwords[id].iv, key)

Plain(d, id, key) == decrypt(d.passwords[id].ciphertext, d.passwords[id].iv, key)

MemoryIds == {passwords[k].id : k \in 1..Len(passwords)}

\* a step of handleLogin that ends with the session unlocked
LoginUnlocks == screen = "login-screen" /\ screen' = "list-screen"

\* a step of handleSyncPull
PullStep ==
  /\ screen = "settings-screen"
  /\ toasts' # toasts
  /\ Len(toasts') >= 1
  /\ toasts'[1] = Toast("pulling", 0)

LastToast == toasts[Len(toasts)]

(* -------------------------------- claims -------------------------------- *)
\* C1: a login that unlocks with passphrase P keeps every record that was
\* stored under P's key: the record is still in the store, decrypts under the
\* session key and is in memory with the same fields
C1_ReLoginKeepsRecords ==
  [][LoginUnlocks =>
       LET P == encryptionKey'.pw
           K == deriveKey(P, getSetting(db, "encryptionSalt"))
       IN \A id \in DOMAIN db.passwords :
            Decryptable(db, id, K) =>
              /\ id \in DOMAIN db'.passwords
              /\ Decryptable(db', id, encryptionKey')
              /\ \E k \in 1..Len(passwords') :
                   passwords'[k] = [id |-> id, data |-> Plain(db, id, K)]]_vars

\* C2: whenever a login can be attempted, the first-time setup is what runs
\* exactly when the store holds no masterHash
C2_SetupIffNoMaster ==
  screen = "login-screen" => (isNewUser <=> ~HasMaster(db))

\* C3: when a masterHash is stored, a login unlocks only with a passphrase
\* that matches the stored verifier
C3_OnlyMatchingUnlocks ==
  [][LoginUnlocks /\ HasMaster(db) =>
       /\ ~verifyThrows(getSetting(db, "masterSalt"))
       /\ verifyMasterPassword(encryptionKey'.pw, getSetting(db, "masterHash"),
                               getSetting(db, "masterSalt"))]_vars

\* C4: once stored, masterHash, masterSalt and encryptionSalt change in no
\* step other than a pull
C4_CredentialsWrittenOnce ==
  [][HasMaster(db) /\ Credentials(db') # Credentials(db) => PullStep]_vars

\* C5: a login of a returning user loads exactly the records that decrypt
\* under the session key, deletes exactly the others from the store and
\* reports how many it deleted
C5_LoadAllQuarantine ==
  [][LoginUnlocks /\ ~isNewUser =>
       LET key == encryptionKey'
           valid == {id \in DOMAIN db.passwords : Decryptable(db, id, key)}
           corrupt == (DOMAIN db.passwords) \ valid
       IN /\ Len(passwords') = Cardinality(valid)
          /\ {passwords'[k].id : k \in 1..Len(passwords')} = valid
          /\ \A k \in 1..Len(passwords') :
               passwords'[k].data = Plain(db, passwords'[k].id, key)
          /\ DOMAIN db'.passwords = valid
          /\ \A id \in valid : db'.passwords[id] = db.passwords[id]
          /\ toasts' = IF corrupt = {} THEN <<>>
                       ELSE <<Toast("corruptDeleted", Cardinality(corrupt))>>]_vars

\* a login has loaded one record and deleted another
C5_Witness ==
  /\ screen = "list-screen"
  /\ toasts = <<Toast("corruptDeleted", 1)>>
  /\ Len(passwords) = 1
  /\ DOMAIN db.passwords = MemoryIds

\* C6: when a create, update or delete has completed in an unlocked session,
\* memory and store hold the same ids and each stored record decrypts under
\* the session key to the record in memory
C6_MemoryMatchesStore ==
  (/\ encryptionKey # Null
   /\ toasts \in {<<Toast("added", 0)>>, <<Toast("updated", 0)>>,
                  <<Toast("deleted", 0)>>})
  => /\ MemoryIds = DOMAIN db.passwords
     /\ \A k \in 1..Len(passwords) :
          /\ Decryptable(db, passwords[k].id, encryptionKey)
          /\ passwords[k].data = Plain(db, passwords[k].id, encryptionKey)

\* C7: logout leaves the key unset, no record in memory, the login screen
\* active and the store as it was
C7_LogoutClearsSession ==
  [][screen = "settings-screen" /\ toasts' = <<Toast("locked", 0)>> =>
       /\ encryptionKey' = Null
       /\ passwords' = <<>>
       /\ screen' = "login-screen"
       /\ db' = db]_vars

\* a vault that holds records in the store and in memory has been locked
C7_Witness ==
  /\ toasts = <<Toast("locked", 0)>>
  /\ encryptionKey = Null
  /\ passwords = <<>>
  /\ DOMAIN db.passwords # {}
  /\ screen = "login-screen"

\* the records and the credentials of store d are those of snapshot file
VaultIs(d, file) ==
  /\ file # NotFound
  /\ "passwords" \in DOMAIN file
  /\ getAllPasswords(d) = file.passwords
  /\ \A k \in {"masterHash", "masterSalt", "encryptionSalt"} :
       d.settings[k] = Field(file, k)

\* C8: a pull that reports success leaves the store holding exactly the
\* snapshot's records and credentials, and a pull that does not leaves the
\* vault as it was: no partly replaced vault stays behind
C8_PullReplacesAtomically ==
  [][PullStep =>
       IF toasts'[Len(toasts')].msg = "synced"
         THEN VaultIs(db', remote)
         ELSE /\ db'.passwords = db.passwords
              /\ Credentials(db') = Credentials(db)]_vars

\* C9: when a pull has reported success, the key is unset and no plaintext
\* record is left in memory
C9_PullLocksSession ==
  (Len(toasts) = 2 /\ toasts[2].msg = "synced")
  => (encryptionKey = Null /\ passwords = <<>>)

\* C10: a snapshot whose version is not 1 is rejected by import and by pull
\* alike, with the store and the session left as they were
C10_VersionRejected ==
  /\ [](\A data \in ImportFiles, ivs \in [1..MaxId -> IVs] :
          Field(data, "version") # SNAPSHOT_VERSION =>
            /\ importOutcome(db, encryptionKey, passwords, data, ivs)
                 = [db |-> db, passwords |-> passwords,
                    toasts |-> <<Toast("unsupportedVersion", 0)>>]
            /\ StorageImportData(db, data) = [db |-> db, threw |-> TRUE])
  /\ [][(PullStep /\ remote # NotFound /\ Field(remote, "version") # SNAPSHOT_VERSION)
          => /\ toasts'[2].msg \in {"unsupportedVersion", "notConfigured", "syncFailure"}
             /\ UNCHANGED <<db, appVars, screen, sync, pullTimer>>]_vars

\* a pull of a version-2 file was rejected on a vault that holds records
C10_Witness ==
  /\ toasts = <<Toast("pulling", 0), Toast("unsupportedVersion", 0)>>
  /\ remote = Version2File
  /\ DOMAIN db.passwords # {}
  /\ encryptionKey # Null

\* a step of App.importData
ImportStep ==
  /\ screen = "settings-screen"
  /\ toasts' # toasts
  /\ Len(toasts') >= 1
  /\ toasts'[1].msg # "pulling"
  /\ toasts'[Len(toasts')].msg \in {"unsupportedVersion", "loginFirst",
                                     "importFailed", "imported"}

\* the entries of file data that carry no ciphertext and iv
PlainEntries(data) ==
  IF "passwords" \notin DOMAIN data THEN {}
  ELSE {k \in 1..Len(data.passwords) :
          ~("ciphertext" \in DOMAIN data.passwords[k]
            /\ "iv" \in DOMAIN data.passwords[k])}

Persisted(d0, d, pw, key) ==
  IF "ciphertext" \in DOMAIN pw /\ "iv" \in DOMAIN pw
    THEN \E id \in DOMAIN d.passwords :
           /\ "id" \in DOMAIN pw => id = pw.id
           /\ d.passwords[id] = [ciphertext |-> pw.ciphertext, iv |-> pw.iv]
    ELSE \E id \in (DOMAIN d.passwords) \ (DOMAIN d0.passwords) :
           /\ Decryptable(d, id, key)
           /\ Plain(d, id, key) = [service |-> OrEmpty(pw, "service"),
                                   email |-> OrEmpty(pw, "email"),
                                   username |-> OrEmpty(pw, "username"),
                                   password |-> OrEmpty(pw, "password"),
                                   memo |-> OrEmpty(pw, "memo")]

\* C12: in an unlocked session, an import of any version-1 file leaves every
\* entry of the file in the store, whatever the store held before
C12_ImportPersistsAll ==
  encryptionKey # Null =>
    \A data \in ImportFiles \cup {exportData(db)}, ivs \in [1..MaxId -> IVs] :
      (Field(data, "version") = SNAPSHOT_VERSION /\ "passwords" \in DOMAIN data) =>
        LET out == importOutcome(db, encryptionKey, passwords, data, ivs)
        IN \A k \in 1..Len(data.passwords) :
             Persisted(db, out.db, data.passwords[k], encryptionKey)

\* a step of handleSyncPush
PushStep ==
  /\ screen = "settings-screen"
  /\ toasts' # toasts
  /\ Len(toasts') >= 1
  /\ toasts'[1] = Toast("pushing", 0)

\* the last thing this client did was a pull that replaced the vault, so the
\* store holds the snapshot that pull took from the repository
JustPulled ==
  /\ Len(toasts) = 2
  /\ toasts[1] = Toast("pulling", 0)
  /\ toasts[2].msg = "synced"

\* C13: when another writer has replaced the repository file since this
\* client's preceding pull, a push of this client is rejected and the file
\* of the other writer stays
C13_PushRejectsStale ==
  [][(PushStep /\ JustPulled /\ remote # exportData(db)) =>
       /\ remote' = remote
       /\ toasts'[Len(toasts')].msg # "pushed"]_vars

C15_PullNotFound ==
  /\ [](Configured(sync) =>
          /\ GitHubSyncPull(sync, NotFound, "ok") = Null
          /\ pullBegin(sync, NotFound, "ok")
               = [pc |-> "end", toast |-> Toast("noRemoteData", 0)])
  /\ [][(PullStep /\ remote = NotFound) =>
          /\ toasts'[2].msg \in {"noRemoteData", "notConfigured", "syncFailure"}
          /\ UNCHANGED <<db, appVars, screen, sync, remote, pullTimer>>]_vars

\* an unlocked session holding a record has pulled from a repository without
\* the file and is still unlocked
C15_Witness ==
  /\ toasts = <<Toast("pulling", 0), Toast("noRemoteData", 0)>>
  /\ remote = NotFound
  /\ encryptionKey # Null
  /\ Len(passwords) > 0
  /\ MemoryIds = DOMAIN db.passwords

\* the credentials are not all set: in GitHubSync's fields or in the store
NotAllSet == ~Configured(sync) \/ ~Configured(GitHubSyncInit(db))

\* C16: a pull or a push that fails with the repository's error leaves the
\* store, the key, the records in memory, the screen and the repository file
\* as they were
C16_SyncFailureKeepsVault ==
  [][((PullStep \/ PushStep) /\ toasts'[Len(toasts')].msg = "syncFailure") =>
       /\ Len(toasts') = 2
       /\ UNCHANGED <<db, appVars, screen, sync, remote, pullTimer>>]_vars

\* a pull has failed on an unlocked vault that holds a record
C16_Witness ==
  /\ toasts = <<Toast("pulling", 0), Toast("syncFailure", 0)>>
  /\ encryptionKey # Null
  /\ Len(passwords) > 0
  /\ MemoryIds = DOMAIN db.passwords

\* C17: while token, owner and repository are not all set, a pull or a push
\* reports that the sync is not configured, sends no request and changes
\* nothing, after clearGitHubConfig as well
C17_NotConfigured ==
  /\ [][((PullStep \/ PushStep) /\ NotAllSet) =>
          /\ toasts'[2] = Toast("notConfigured", 0)
          /\ UNCHANGED <<db, appVars, screen, sync, remote, pullTimer>>]_vars
  /\ [](NotAllSet =>
          \A a \in Responses, b \in Responses :
            /\ GitHubSyncPull(sync, remote, a) = [t |-> "throw", msg |-> "notConfigured"]
            /\ ~GitHubSyncPush(sync, remote, exportData(db), a, b).sent)

\* a push was refused after the configuration had been cleared
C17_Witness ==
  /\ toasts = <<Toast("pushing", 0), Toast("notConfigured", 0)>>
  /\ getSetting(db, "githubToken") = Null
  /\ sync = NoConfig
  /\ remote # NotFound

\* the keys that open store d: what deriveKey makes of a passphrase and the
\* stored encryptionSalt, and the key of the session
KeysOf(d, key) ==
  {deriveKey(p, getSetting(d, "encryptionSalt")) : p \in Passphrases}
    \cup (IF key = Null THEN {} ELSE {key})

\* the forms in which a passphrase or a key could be written out: the
\* passphrase as a string, the key as a WordArray or in base64
Secrets(d, key) ==
  {String(p) : p \in Passphrases}
    \cup KeysOf(d, key)
    \cup {wordArrayToBase64(K) : K \in KeysOf(d, key)}

\* the sync token, in the store and in GitHubSync
Tokens(d, cfg) == {getSetting(d, "githubToken"), cfg.token} \ {Undefined, Null}

SnapshotFields == {"version", "masterHash", "masterSalt", "encryptionSalt", "passwords"}

\* snapshot snap has the fields of a snapshot only, and none of them is a
\* secret of store d or the sync token
CleanSnapshot(snap, d, key, cfg) ==
  /\ DOMAIN snap \subseteq SnapshotFields
  /\ \A f \in (DOMAIN snap) \cap {"masterHash", "masterSalt", "encryptionSalt"} :
       snap[f] \notin Secrets(d, key) \cup Tokens(d, cfg)
  /\ "passwords" \in DOMAIN snap =>
       \A k \in 1..Len(snap.passwords) :
         /\ DOMAIN snap.passwords[k] = {"id", "ciphertext", "iv"}
         /\ snap.passwords[k].ciphertext.t = "aes"

C19_WeakPassphrase ==
  [][(screen = "login-screen" /\ isNewUser) =>
       /\ \A p \in Passphrases :
            (Len(p) < MIN_MASTER_LENGTH /\ handleLoginSetup(p, p)) =>
              /\ toasts' = <<Toast("passwordTooShort", 0)>>
              /\ UNCHANGED <<db, encryptionKey, screen>>
       /\ toasts' = <<Toast("masterPasswordSet", 0)>> =>
            /\ encryptionKey' # Null
            /\ Len(encryptionKey'.pw) >= MIN_MASTER_LENGTH]_vars

\* a new user's too-short master password has been refused: no credential
\* is stored, there is no key, and the login screen is still shown
C19_Witness ==
  /\ toasts = <<Toast("passwordTooShort", 0)>>
  /\ isNewUser
  /\ screen = "login-screen"
  /\ encryptionKey = Null
  /\ \A k \in {"masterHash", "masterSalt", "encryptionSalt"} : getSetting(db, k) = Undefined

\* snapshot file comes from a vault that was set up with passphrase p
SetUpWith(file, p) ==
  /\ ~Falsy(Field(file, "masterSalt"))
  /\ verifyMasterPassword(p, Field(file, "masterHash"), Field(file, "masterSalt"))

\* a step of handleLogin that derives a key from passphrase p
LoginWith(p) ==
  /\ screen = "login-screen"
  /\ encryptionKey = Null
  /\ encryptionKey' # Null
  /\ encryptionKey'.pw = p

\* the state a pull of the repository file and its setTimeout callback leave
\* behind: the store holds the vault of the file, the user counts as known
Pulled ==
  /\ pull = PullIdle
  /\ ~pullTimer
  /\ ~isNewUser
  /\ VaultIs(db, remote)

\* C20: when the store holds the vault of the snapshot in the repository,
\* which a device set up with passphrase P has pushed, a login with P unlocks
\* with the key of that snapshot, reports no deleted record, leaves the store
\* as pulled and has every record of the snapshot in memory, decrypted
C20_CrossDeviceRoundTrip ==
  [][\A p \in Passphrases :
       (Pulled /\ SetUpWith(remote, p) /\ LoginWith(p)) =>
         /\ screen' = "list-screen"
         /\ encryptionKey' = deriveKey(p, Field(remote, "encryptionSalt"))
         /\ toasts' = <<>>
         /\ db' = db
         /\ Len(passwords') = Len(remote.passwords)
         /\ \A k \in 1..Len(remote.passwords) :
              /\ ~decryptThrows(remote.passwords[k].ciphertext, remote.passwords[k].iv,
                                encryptionKey')
              /\ passwords'[k] =
                   [id |-> remote.passwords[k].id,
                    data |-> decrypt(remote.passwords[k].ciphertext,
                                     remote.passwords[k].iv, encryptionKey')]]_vars

\* C21: a pull that reports success leaves in the store the sync
\* configuration the store held before it, and that configuration is complete,
\* so GitHubSync.init finds the sync configured afterwards
C21_PullKeepsSyncConfig ==
  [][(PullStep /\ toasts'[Len(toasts')].msg = "synced") =>
       /\ GitHubSyncInit(db') = GitHubSyncInit(db)
       /\ Configured(GitHubSyncInit(db'))]_vars

\* after a pull that replaced the vault and the login that followed it, the
\* settings screen is shown again and GitHubSync.init finds the sync
\* configured in the store
C21_Witness ==
  /\ VaultIs(db, OtherVault)
  /\ screen = "settings-screen"
  /\ toasts = <<>>
  /\ sync = FormConfig
  /\ GitHubSyncInit(db) = FormConfig

\* the session is unlocked and no handler is in the middle of its store calls
Unlocked ==
  /\ encryptionKey # Null
  /\ screen # "login-screen"
  /\ pull = PullIdle

\* what a decryption returned is an object with service, username and password
WellFormed(data) == {"service", "username", "password"} \subseteq DOMAIN data

\* C22: whenever the session is unlocked and no handler is under way, every
\* record in the store decrypts under the session key to an object with
\* service, username and password
C22_StoreDecryptsUnderKey ==
  Unlocked =>
    \A id \in DOMAIN db.passwords :
      /\ Decryptable(db, id, encryptionKey)
      /\ WellFormed(Plain(db, id, encryptionKey))

C24_WrongKeyFails ==
  (call.op = "decrypt" /\ call.key # call.madeWith) => call.threw

AfterPull ==
  /\ screen = "login-screen"
  /\ encryptionKey = Null
  /\ pullTimer \/ (~isNewUser /\ VaultIs(db, remote))

\* C26: a login after a pull that replaced the vault never takes the
\* first-time branch; it unlocks only with a passphrase that matches the
\* masterHash and masterSalt the pull stored, and with such a passphrase it
\* does unlock, under the key of the pulled encryptionSalt
C26_LoginAfterPull ==
  [][AfterPull =>
       /\ toasts' \notin {<<Toast("passwordMismatch", 0)>>,
                           <<Toast("passwordTooShort", 0)>>,
                           <<Toast("masterPasswordSet", 0)>>}
       /\ screen' = "list-screen" =>
            /\ encryptionKey' # Null
            /\ verifyMasterPassword(encryptionKey'.pw, getSetting(db, "masterHash"),
                                    getSetting(db, "masterSalt"))
            /\ Credentials(db') = Credentials(db)
       /\ \A p \in Passphrases :
            (/\ ~isNewUser
             /\ SetUpWith(exportData(db), p)
             /\ handleLoginVerify(p)) =>
              /\ screen' = "list-screen"
              /\ encryptionKey' = deriveKey(p, getSetting(db, "encryptionSalt"))]_vars

\* C27: while no derived key is held, the interval between a completed pull
\* and the switch to the login screen included, no create, update or delete
\* changes the records of the store; the only steps that change them with
\* no key held are a pull and the purge of an unlocking login.
C27_NoKeyNoRecordChange ==
  [][(encryptionKey = Null /\ ~PullStep /\ ~LoginUnlocks) =>
       db'.passwords = db.passwords]_vars

\* C28: whenever a pull has cleared the vault, the call ends with the key
\* unset and the login screen on its way, whether the rest of the pull
\* went through or failed.
C28_ClearedPullLogsOut ==
  [][(PullStep /\ toasts'[Len(toasts')].msg \in {"synced", "pullFailed"}) =>
       /\ encryptionKey' = Null
       /\ pullTimer']_vars

\* C29: every snapshot that a push uploads is a state the store was in
\* between operations, its credentials and its records together, also when
\* the push runs interleaved with a pull.
C29_PushedIsCommitted ==
  [][(push.pc = "put" /\ remote' # remote) => remote' \in committed]_vars

\* C30: whenever a master hash is stored and no set-up or pull is between
\* its writes, the stored hash was made with the stored salt, so that the
\* passphrase of that set-up verifies against them.
C30_HashAndSaltOfOneSetup ==
  (HasMaster(db) /\ Quiet(pull, logins)) =>
    /\ ~verifyThrows(getSetting(db, "masterSalt"))
    /\ \E p \in Passphrases :
         verifyMasterPassword(p, getSetting(db, "masterHash"),
                              getSetting(db, "masterSalt"))

\* C31: when the length asked for is at least the number of enabled classes,
\* generate returns a password of exactly that length with at least one
\* character of every enabled class, whatever the random draws were.
C31_EveryClassPresent ==
  (gen.pc = "done" /\ gen.options.length >= Len(checks(gen.options))) =>
    /\ Len(gen.password) = gen.options.length
    /\ \A k \in 1..Len(checks(gen.options)) :
         \E i \in 1..Len(gen.password) :
           \E j \in 1..Len(checks(gen.options)[k].chars) :
             gen.password[i] = checks(gen.options)[k].chars[j]

\* the origin that the URL parser gives a request: its pieces before the path
SameOrigin(url) == SubSeq(url, 1, Len(url) - 1) = origin

\* C32: once the activate listener is through, the cache of the current
\* CACHE_NAME is the only cache left, whatever older caches there were.
C32_OnlyCurrentCacheLeft ==
  sw.phase = "activated" =>
    {sw.caches[i].name : i \in 1..Len(sw.caches)} = {CACHE_NAME}

\* an activation that found the caches of both older versions
C32_Witness ==
  /\ sw.phase = "activated"
  /\ {sw.names[i] : i \in 1..Len(sw.names)} = OldCacheNames \cup {CACHE_NAME}

\* C33: a request of the worker's own origin that has a cached response is
\* answered with it and nothing is fetched; one that has none is fetched, and
\* its response is put into the cache only with status 200; a request of
\* another origin is fetched and answered from the network, and from the
\* cache only when the fetch fails (with nothing cached the page gets the
\* failure either way).
C33_CacheFirstOwnOrigin ==
  /\ \A response \in sw.puts : response.status = 200
  /\ sw.last # NoFetch =>
       IF SameOrigin(sw.last.url)
         THEN IF sw.last.cached # Undefined
                THEN ~sw.last.fetched /\ sw.last.answer = sw.last.cached
                ELSE /\ sw.last.fetched
                     /\ sw.last.answer = sw.last.outcome
                     /\ sw.last.put => sw.last.outcome.status = 200
         ELSE /\ sw.last.fetched
              /\ IF sw.last.outcome = Rejected
                   THEN \/ sw.last.answer = sw.last.cached
                        \/ sw.last.cached = Undefined /\ sw.last.answer = Rejected
                   ELSE sw.last.answer = sw.last.outcome

============================================================================
